---- MODULE Spec2Model ----
(***************************************************************************)
(* Naija News Hub: rate limiter, scraping-job tracker and article service. *)
(*                                                                         *)
(* Five specifications share this module:                                  *)
(*   SpecRL   utility_modules/rate_limiter.py  (RateLimiter)               *)
(*   SpecJob  database/repositories/scraping_repository.py and             *)
(*            utility_modules/error_handling.py (job life cycle)           *)
(*   SpecSvc  service_layer/article_service.py (extract, validate, store)  *)
(*   SpecDisc web_scraper/url_discovery.py (discover_urls)                 *)
(*   SpecLib  utility_modules/article_comparison.py and                    *)
(*            utility_modules/content_validation.py (pure helpers)         *)
(* The rate limiter's clock counts ticks of 30 seconds (one minute is 2    *)
(* ticks); the article service's clock counts days.                        *)
(***************************************************************************)
EXTENDS Integers, Sequences, FiniteSets, TLC

VARIABLES
  \* ---- rate limiter (rate_limiter.py) ----
  now,               \* the clock read by datetime.now()
  request_history,   \* RateLimiter.request_history: domain -> timestamps
  domain_semaphores, \* RateLimiter.domain_semaphores: domain -> free permits
  pc,                \* position of every caller of execute_with_rate_limit
  dom,               \* the domain of the caller's current call
  wakeAt,            \* when the caller's asyncio.sleep may return
  attempt,           \* the loop variable of the retry loop
  returned,          \* the call that returned last: result and invocations
  awaiting,          \* the nested call the caller's operation awaits, or 0
  \* ---- job tracker (scraping_repository.py, error_handling.py) ----
  jobs,              \* the scraping_jobs table, job id = index
  error_logs,        \* the error_logs table, append-only
  handled,           \* the last call of handle_error: job, severity, before/after
  \* ---- article service (article_service.py, article_repository.py) ----
  utcnow,            \* the clock read by datetime.utcnow(), in days
  articles,          \* the articles table, article id = index
  categories,        \* the categories table: the names of its rows
  article_categories,\* the article_categories table: <<article id, name>>
  workers,           \* the calls of extract_and_store_article
  finished,          \* the call of extract_and_store_article that ended last
  run,               \* the call of a batch or discovery method and its job
  \* ---- URL discovery and the pure helpers ----
  disc,              \* the call of url_discovery.discover_urls
  call               \* the last call of a pure helper: arguments and result

rlVars == <<now, request_history, domain_semaphores, pc, dom, wakeAt,
            attempt, returned, awaiting>>

jobVars == <<jobs, error_logs, handled>>

svcVars == <<utcnow, articles, categories, article_categories, workers,
            finished, run>>

libVars == <<disc, call>>

vars == <<rlVars, jobVars, svcVars, libVars>>

----------------------------------------------------------------------------
\* Bounds of the model
NumCallers == 2
MaxTime == 3

NumJobs == 2
MaxErrors == 1
MaxArticles == 1

MaxBatch == 2
MaxClock == 1
MaxUpdates == 1

\* Configuration of the RateLimiter instance (constructor arguments)
requests_per_minute == 4
max_retries == 1
retry_delay == 1
\* timedelta(minutes=1) and the 60 of wait_time, in ticks
Window == 2

Callers == 1..NumCallers
Domains == {"a.ng", "b.ng"}
Ticks == 0..MaxTime

\* RateLimiter(domain_specific_limits={"b.ng": 2})
domain_specific_limits == [d \in {"b.ng"} |-> 2]

Max(a, b) == IF a >= b THEN a ELSE b

RECURSIVE Pow2(_)
Pow2(n) == IF n = 0 THEN 1 ELSE 2 * Pow2(n - 1)

\* jitter = 0.5: random.uniform(0, jitter * t) ranges over 0 .. t/2
JitterRange(t) == 0..(t \div 2)

_get_domain_limit(d) ==
  IF d \in DOMAIN domain_specific_limits
  THEN domain_specific_limits[d]
  ELSE requests_per_minute

\* asyncio.Semaphore(max(1, limit // 2))
SemaphoreSize(limit) == Max(1, limit \div 2)

_get_domain_semaphoreFresh(d) == SemaphoreSize(_get_domain_limit(d))
\* _get_domain_semaphore: the free permits of the domain's semaphore,
\* created on first use
_get_domain_semaphore(d) ==
  IF d \in DOMAIN domain_semaphores
  THEN domain_semaphores[d]
  ELSE SemaphoreSize(_get_domain_limit(d))

\* the history of a domain, [] when the domain is new
History(d) ==
  IF d \in DOMAIN request_history THEN request_history[d] ELSE <<>>

\* the clean-up of _wait_for_rate_limit: keep what is younger than a minute
Recent(h) == SelectSeq(h, LAMBDA t : now - t < Window)

SetHistory(d, h) ==
  [x \in (DOMAIN request_history) \cup {d} |->
      IF x = d THEN h ELSE request_history[x]]

SetSemaphore(d, v) ==
  [x \in (DOMAIN domain_semaphores) \cup {d} |->
      IF x = d THEN v ELSE domain_semaphores[x]]

OnExceptionReraise(a) == IF a < max_retries THEN "retry" ELSE "raise"
\* the except branch of the retry loop: `if attempt < self.max_retries`
\* sleeps and retries, else `return None`; it never re-raises
OnException(a) == IF a < max_retries THEN "retry" ELSE "return_none"

----------------------------------------------------------------------------
GateNoWait(c, d, sem) ==
  /\ domain_semaphores' = SetSemaphore(d, sem)
  /\ dom' = [dom EXCEPT ![c] = d]
  /\ attempt' = [attempt EXCEPT ![c] = 0]
  /\ request_history' = SetHistory(d, Append(Recent(History(d)), now))
  /\ pc' = [pc EXCEPT ![c] = "run"]
  /\ UNCHANGED <<returned, wakeAt>>
\* _wait_for_rate_limit up to its first suspension, run by caller c that
\* holds a permit of domain d; sem is the new permit count.
Gate(c, d, sem) ==
  LET limit == _get_domain_limit(d)
      hist  == Recent(History(d))
  IN /\ domain_semaphores' = SetSemaphore(d, sem)
     /\ dom' = [dom EXCEPT ![c] = d]
     /\ attempt' = [attempt EXCEPT ![c] = 0]
     /\ UNCHANGED returned
     /\ IF Len(hist) >= limit /\ Window - (now - hist[1]) > 0
        THEN \* asyncio.sleep(wait_time + jitter_amount)
             LET wait_time == Window - (now - hist[1])
             IN \E j \in JitterRange(wait_time) :
                  /\ wakeAt' = [wakeAt EXCEPT ![c] = now + wait_time + j]
                  /\ pc' = [pc EXCEPT ![c] = "rate_wait"]
                  /\ request_history' = SetHistory(d, hist)
        ELSE \* append the timestamp and invoke func (attempt 0)
             /\ request_history' = SetHistory(d, Append(hist, now))
             /\ pc' = [pc EXCEPT ![c] = "run"]
             /\ UNCHANGED wakeAt

\* the call of caller c returns r: leave `async with semaphore`; the
\* operation that awaited this call goes on
Return(c, r) ==
  /\ pc' = [pc EXCEPT ![c] = "idle"]
  /\ awaiting' = [b \in Callers |-> IF awaiting[b] = c THEN 0 ELSE awaiting[b]]
  /\ returned' = [result |-> r, invocations |-> attempt[c] + 1]
  /\ domain_semaphores' =
       SetSemaphore(dom[c], _get_domain_semaphore(dom[c]) + 1)
  /\ dom' = [dom EXCEPT ![c] = "a.ng"]
  /\ attempt' = [attempt EXCEPT ![c] = 0]

\* the first free task, the one that makes the next call
FirstFree(c) ==
  /\ pc[c] = "idle"
  /\ \A b \in Callers : b < c => pc[b] # "idle"

\* execute_with_rate_limit is called for domain d by the first free task;
\* with a free permit the caller runs on to the gate, otherwise it blocks
\* in `async with semaphore`
Execute(c, d) ==
  /\ FirstFree(c)
  /\ IF _get_domain_semaphore(d) > 0
     THEN /\ Gate(c, d, _get_domain_semaphore(d) - 1)
          /\ UNCHANGED now
     ELSE /\ pc' = [pc EXCEPT ![c] = "acquire"]
          /\ dom' = [dom EXCEPT ![c] = d]
          /\ domain_semaphores' = SetSemaphore(d, _get_domain_semaphore(d))
          /\ UNCHANGED <<now, request_history, wakeAt, attempt, returned>>
  /\ UNCHANGED awaiting

\* the operation of caller c is itself rate limited: it awaits
\* execute_with_rate_limit for the URL it was given, hence for its own
\* domain (discover_urls_from_sitemap inside discover_urls, and the
\* recursion over a sitemap index); task k carries the nested call
NestedExecute(c) ==
  /\ pc[c] = "run"
  /\ awaiting[c] = 0
  /\ \E k \in Callers :
       /\ FirstFree(k)
       /\ awaiting' = [awaiting EXCEPT ![c] = k]
       /\ IF _get_domain_semaphore(dom[c]) > 0
          THEN /\ Gate(k, dom[c], _get_domain_semaphore(dom[c]) - 1)
               /\ UNCHANGED now
          ELSE /\ pc' = [pc EXCEPT ![k] = "acquire"]
               /\ dom' = [dom EXCEPT ![k] = dom[c]]
               /\ UNCHANGED <<now, request_history, domain_semaphores,
                              wakeAt, attempt, returned>>

\* a blocked caller gets the permit another caller released
Acquire(c) ==
  /\ pc[c] = "acquire"
  /\ _get_domain_semaphore(dom[c]) > 0
  /\ Gate(c, dom[c], _get_domain_semaphore(dom[c]) - 1)
  /\ UNCHANGED <<now, awaiting>>

\* the sleep of _wait_for_rate_limit returns: line 134, then func
RateWaitOver(c) ==
  /\ pc[c] = "rate_wait"
  /\ now >= wakeAt[c]
  /\ request_history' = SetHistory(dom[c], Append(History(dom[c]), now))
  /\ pc' = [pc EXCEPT ![c] = "run"]
  /\ wakeAt' = [wakeAt EXCEPT ![c] = 0]
  /\ UNCHANGED <<now, domain_semaphores, dom, attempt, returned, awaiting>>

\* func returns a value: `return await func(...)`, the permit is released
FuncReturns(c) ==
  /\ pc[c] = "run"
  /\ awaiting[c] = 0
  /\ Return(c, "value")
  /\ UNCHANGED <<now, request_history, wakeAt>>

\* func raises an Exception: back off and retry, or give up with None
FuncRaises(c) ==
  /\ pc[c] = "run"
  /\ awaiting[c] = 0
  /\ IF OnException(attempt[c]) = "retry"
     THEN LET delay == retry_delay * Pow2(attempt[c])
          IN \E j \in JitterRange(delay) :
               /\ wakeAt' = [wakeAt EXCEPT ![c] = now + delay + j]
               /\ pc' = [pc EXCEPT ![c] = "backoff"]
               /\ UNCHANGED <<returned, domain_semaphores, dom, attempt,
                              awaiting>>
     ELSE /\ Return(c, IF OnException(attempt[c]) = "return_none"
                        THEN "None" ELSE "raised")
          /\ UNCHANGED wakeAt
  /\ UNCHANGED <<now, request_history>>

\* the back-off sleep returns: next iteration of the retry loop
BackoffOver(c) ==
  /\ pc[c] = "backoff"
  /\ now >= wakeAt[c]
  /\ attempt' = [attempt EXCEPT ![c] = @ + 1]
  /\ pc' = [pc EXCEPT ![c] = "run"]
  /\ wakeAt' = [wakeAt EXCEPT ![c] = 0]
  /\ UNCHANGED <<now, request_history, domain_semaphores, dom, returned,
                 awaiting>>

\* time passes
Tick ==
  /\ now < MaxTime
  /\ now' = now + 1
  /\ UNCHANGED <<request_history, domain_semaphores, pc, dom, wakeAt,
                 attempt, returned, awaiting>>

\* a call slot of extract_and_store_article that is not in use
FreeWorker ==
  [pc |-> "free", url |-> "u1", force |-> FALSE, existing |-> 0,
   result |-> "none"]

\* no call of extract_and_store_article has ended yet
NoneFinished ==
  [result |-> "none", outcome |-> "none", extracted |-> "none",
   db_error |-> FALSE, changed |-> FALSE]

\* no batch or discovery method has been called yet
NoRun ==
  [pc |-> "idle", kind |-> "none", job |-> 0, entry |-> 0,
   db_error |-> FALSE, summary |-> [status |-> "none"]]

\* the dict the batch and discovery methods return on their error paths:
\* articles_found and articles_stored, no other count
ErrorSummary == [status |-> "error", found |-> 0, stored |-> 0]

\* no call of discover_urls yet
NoDiscovery ==
  [pc |-> "idle", i |-> 0, attempt |-> 0, main_page_urls |-> {},
   all_urls |-> {}, result |-> "none"]

\* no call of a pure helper yet
NoCall == [fn |-> "none"]

\* a new RateLimiter, empty tables, no call in progress
Init ==
  /\ now = 0
  /\ request_history = <<>>
  /\ domain_semaphores = <<>>
  /\ pc = [c \in Callers |-> "idle"]
  /\ dom = [c \in Callers |-> "a.ng"]
  /\ wakeAt = [c \in Callers |-> 0]
  /\ attempt = [c \in Callers |-> 0]
  /\ returned = [result |-> "none", invocations |-> 0]
  /\ awaiting = [c \in Callers |-> 0]
  /\ jobs = <<>>
  /\ error_logs = <<>>
  /\ handled = [job |-> 0, severity |-> "none", before |-> "none",
                before_end |-> FALSE, after |-> "none", after_end |-> FALSE]
  /\ utcnow = 0
  /\ articles = <<>>
  /\ categories = {}
  /\ article_categories = {}
  /\ workers = [w \in 0..MaxBatch |-> FreeWorker]
  /\ finished = NoneFinished
  /\ run = NoRun
  /\ disc = NoDiscovery
  /\ call = NoCall

NextRL ==
  \/ \E c \in Callers, d \in Domains : Execute(c, d) /\ UNCHANGED <<jobVars, svcVars, libVars>>
  \/ \E c \in Callers : Acquire(c) /\ UNCHANGED <<jobVars, svcVars, libVars>>
  \/ \E c \in Callers : RateWaitOver(c) /\ UNCHANGED <<jobVars, svcVars, libVars>>
  \/ \E c \in Callers : FuncReturns(c) /\ UNCHANGED <<jobVars, svcVars, libVars>>
  \/ \E c \in Callers : FuncRaises(c) /\ UNCHANGED <<jobVars, svcVars, libVars>>
  \/ \E c \in Callers : BackoffOver(c) /\ UNCHANGED <<jobVars, svcVars, libVars>>
  \/ \E c \in Callers : NestedExecute(c) /\ UNCHANGED <<jobVars, svcVars, libVars>>
  \/ Tick /\ UNCHANGED <<jobVars, svcVars, libVars>>

SpecRL == Init /\ [][NextRL]_vars

----------------------------------------------------------------------------
\* Properties of the rate limiter

\* the callers that hold a permit of domain d (inside `async with`)
Inside(d) ==
  {c \in Callers : dom[c] = d /\ pc[c] \in {"rate_wait", "run", "backoff"}}

\* the operations of domain d let through the gate in [s, s + Window)
StartedIn(d, s) ==
  {i \in 1..Len(History(d)) : s <= History(d)[i] /\ History(d)[i] < s + Window}

\* C1: in every one-minute interval the operations the rate limiter lets
\* start for a domain number at most the domain's requests-per-minute limit
C1_RateCeiling ==
  \A d \in Domains : \A s \in Ticks :
    Cardinality(StartedIn(d, s)) <= _get_domain_limit(d)

\* C2: the operations in flight inside Execute for one domain number at
\* most max(1, limit // 2)
C2_InFlightBound ==
  \A d \in Domains :
    Cardinality(Inside(d)) <= Max(1, _get_domain_limit(d) \div 2)

\* a caller is blocked on the semaphore of a domain whose permits are all
\* taken by running operations
C2_Witness ==
  \E c \in Callers :
    /\ pc[c] = "acquire"
    /\ Cardinality(Inside(dom[c])) = Max(1, _get_domain_limit(dom[c]) \div 2)
    /\ \E b \in Inside(dom[c]) : pc[b] = "run"

\* C3: no exception of the wrapped operation escapes Execute; the operation
\* is invoked at most max_retries + 1 times, and None is returned once all
\* of these invocations failed
C3_RetryThenNone ==
  /\ returned.result # "raised"
  /\ returned.invocations <= max_retries + 1
  /\ returned.result = "None" => returned.invocations = max_retries + 1
  /\ \A c \in Callers : attempt[c] <= max_retries

\* a call returned None after max_retries + 1 failed invocations
C3_Witness ==
  /\ returned.result = "None"
  /\ returned.invocations = max_retries + 1

----------------------------------------------------------------------------
\* Job tracker: ScrapingRepository and ScrapingErrorHandler

JobIds == 1..NumJobs

\* enums.py
ErrorTypes == {"browser", "database", "rate_limit", "authentication",
               "validation", "network", "content", "unknown"}

\* the exceptions handle_error is given: their class and, for a
\* ScrapingError, the error_type it carries
Exceptions ==
  [cls : {"PlaywrightTimeoutError", "PlaywrightError", "SQLAlchemyError",
          "Exception"}, error_type : {"unknown"}]
  \cup [cls : {"ScrapingError"}, error_type : ErrorTypes]

determine_error_type(error) ==
  CASE error.cls = "PlaywrightTimeoutError" -> "browser"
    [] error.cls = "PlaywrightError" -> "browser"
    [] error.cls = "SQLAlchemyError" -> "database"
    [] error.cls = "ScrapingError" -> error.error_type
    [] OTHER -> "unknown"

determine_severity(error_type) ==
  CASE error_type = "browser" -> "high"
    [] error_type = "database" -> "critical"
    [] error_type = "rate_limit" -> "medium"
    [] error_type = "authentication" -> "high"
    [] error_type = "validation" -> "low"
    [] error_type = "network" -> "medium"
    [] error_type = "content" -> "low"
    [] error_type = "unknown" -> "high"
    [] OTHER -> "high"

FailsJobFromHigh(severity) == severity \in {"critical", "high"}
\* `if severity == ErrorSeverity.CRITICAL` of handle_error
FailsJob(severity) == severity = "critical"

\* ScrapingJob(**job_data) with status "pending"
NewJob ==
  [status |-> "pending", end_time |-> FALSE, error_count |-> 0,
   articles_found |-> 0, articles_scraped |-> 0, error_message |-> FALSE]

\* the table after start_job(job_id); unknown ids change nothing
StartedJobs(j) ==
  IF j \in DOMAIN jobs
  THEN [jobs EXCEPT ![j].status = "running"]
  ELSE jobs

\* the table after complete_job(job_id, articles_found, articles_scraped)
CompletedJobs(j, found, scraped) ==
  IF j \in DOMAIN jobs
  THEN [jobs EXCEPT ![j].status = "completed", ![j].end_time = TRUE,
                    ![j].articles_found = found,
                    ![j].articles_scraped = scraped]
  ELSE jobs

\* the table after fail_job(job_id, error_message)
FailedJobs(j) ==
  IF j \in DOMAIN jobs
  THEN [jobs EXCEPT ![j].status = "failed", ![j].end_time = TRUE,
                    ![j].error_message = TRUE]
  ELSE jobs

create_job ==
  /\ Len(jobs) < NumJobs
  /\ jobs' = Append(jobs, NewJob)
  /\ UNCHANGED <<error_logs, handled>>

start_job(j) ==
  /\ jobs' = StartedJobs(j)
  /\ UNCHANGED <<error_logs, handled>>

complete_job(j, found, scraped) ==
  /\ jobs' = CompletedJobs(j, found, scraped)
  /\ UNCHANGED <<error_logs, handled>>

fail_job(j) ==
  /\ jobs' = FailedJobs(j)
  /\ UNCHANGED <<error_logs, handled>>

\* ScrapingErrorHandler.handle_error(error, job): log the error, fail the
\* job on a critical error, count the error, save both
handle_error(error, j) ==
  LET error_type == determine_error_type(error)
      severity == determine_severity(error_type)
      job1 == IF FailsJob(severity)
              THEN [jobs[j] EXCEPT !.status = "failed", !.end_time = TRUE]
              ELSE jobs[j]
      job2 == [job1 EXCEPT !.error_count = @ + 1]
  IN /\ j \in DOMAIN jobs
     /\ Len(error_logs) < MaxErrors
     /\ error_logs' = Append(error_logs,
            [job_id |-> j, error_type |-> error_type, severity |-> severity])
     /\ jobs' = [jobs EXCEPT ![j] = job2]
     /\ handled' = [job |-> j, severity |-> severity,
                    before |-> jobs[j].status, before_end |-> jobs[j].end_time,
                    after |-> job2.status, after_end |-> job2.end_time]

NextJob ==
  \/ create_job /\ UNCHANGED <<rlVars, svcVars, libVars>>
  \/ \E j \in JobIds : start_job(j) /\ UNCHANGED <<rlVars, svcVars, libVars>>
  \/ \E j \in JobIds, found \in 0..MaxArticles :
       \E scraped \in 0..found :
         complete_job(j, found, scraped) /\ UNCHANGED <<rlVars, svcVars, libVars>>
  \/ \E j \in JobIds : fail_job(j) /\ UNCHANGED <<rlVars, svcVars, libVars>>
  \/ \E error \in Exceptions, j \in JobIds :
       handle_error(error, j) /\ UNCHANGED <<rlVars, svcVars, libVars>>

SpecJob == Init /\ [][NextJob]_vars

\* the status changes of the job life cycle
ForwardSteps ==
  {<<"pending", "running">>, <<"running", "completed">>,
   <<"pending", "failed">>, <<"running", "failed">>}

\* C4: a job's status only moves pending -> running -> completed or
\* pending/running -> failed; a completed or failed job keeps its status
C4_ForwardOnly ==
  [][\A j \in DOMAIN jobs :
       jobs'[j].status # jobs[j].status =>
         <<jobs[j].status, jobs'[j].status>> \in ForwardSteps]_vars

\* C5: handle_error sets the job to failed, with end_time set, exactly when
\* the severity is critical; any lower severity leaves status and end_time
\* as they were
C5_CriticalFailsJob ==
  handled.job # 0 =>
    /\ handled.severity = "critical" =>
          handled.after = "failed" /\ handled.after_end
    /\ handled.severity # "critical" =>
          handled.after = handled.before /\ handled.after_end = handled.before_end

\* a critical (database) error was handled for a running job, which is now
\* failed with its end_time set and the error counted
C5_Witness ==
  /\ handled.job # 0
  /\ handled.severity = "critical"
  /\ handled.before = "running"
  /\ ~handled.before_end
  /\ jobs[handled.job].status = "failed"
  /\ jobs[handled.job].end_time
  /\ jobs[handled.job].error_count = 1

----------------------------------------------------------------------------
\* Article service: extract_article, validate_article_content,
\* ArticleRepository and ArticleService

Urls == {"u1"}

\* ScraperConfig: the concurrency and the size of a discovery run
max_concurrent_requests == 2
max_articles_per_run == 1

\* ContentValidationConfig
min_quality_score == 50
min_title_length == 10
min_content_length == 100
min_word_count == 50
min_paragraph_count == 2
\* `score < 30` of extract_article and of extract_and_store_article
RejectBelow == 30
\* min_update_interval_hours = 24 of should_update_article, in days
min_update_interval == 1

\* what a URL serves when it is visited
Pages == {"full", "revised", "thin", "junk"}

\* how the visit of a URL by extract_article goes: the browser renders the
\* page, or raises a PlaywrightError and the requests fall-back fetches the
\* page, or raises a PlaywrightError and the fall-back fails too, or raises
\* some other exception
Outcomes == {"rendered", "fetched", "fetch_failed", "crashed"}

\* the texts of the model and what the validator measures of them
TitleLen ==
  [t \in {"Headline of the day", "News", "Sample Article from url"} |->
     CASE t = "Headline of the day" -> 19
       [] t = "News" -> 4
       [] OTHER -> 23]

ContentLen ==
  [c \in {"", "body", "longer body", "stub", "coming soon",
          "Content could not be extracted", "sample"} |->
     CASE c = "" -> 0
       [] c = "body" -> 900
       [] c = "longer body" -> 1500
       [] c = "stub" -> 10
       [] c = "coming soon" -> 11
       [] c = "Content could not be extracted" -> 53
       [] OTHER -> 51]

WordCount ==
  [c \in DOMAIN ContentLen |->
     CASE c = "" -> 0
       [] c = "body" -> 150
       [] c = "longer body" -> 250
       [] c = "stub" -> 2
       [] c = "coming soon" -> 2
       [] c = "Content could not be extracted" -> 9
       [] OTHER -> 8]

ParagraphCount ==
  [c \in DOMAIN ContentLen |->
     CASE c = "body" -> 4
       [] c = "longer body" -> 6
       [] c = "Content could not be extracted" -> 2
       [] c = "sample" -> 2
       [] OTHER -> 1]

\* the placeholder_patterns of ContentValidator
Placeholder == [c \in DOMAIN ContentLen |-> c = "coming soon"]

PageTitle ==
  [p \in Pages |-> IF p \in {"thin", "junk"} THEN "News"
                   ELSE "Headline of the day"]

PageContent ==
  [p \in Pages |->
     CASE p = "full" -> "body"
       [] p = "revised" -> "longer body"
       [] p = "thin" -> "stub"
       [] p = "junk" -> "coming soon"]

\* the published date of the page: an ISO string without or with a UTC
\* offset
PageDate == [p \in Pages |-> "naive"]

NoValidation == [present |-> FALSE, is_valid |-> FALSE, score |-> 0]

\* _validate_title
TitlePenalty(title) ==
  IF title = "" THEN 50
  ELSE IF TitleLen[title] < min_title_length THEN 10 ELSE 0

\* _validate_content
ContentPenalty(content) ==
  IF content = "" THEN 50
  ELSE (IF ContentLen[content] < min_content_length THEN 20 ELSE 0)
     + (IF WordCount[content] < min_word_count THEN 15 ELSE 0)
     + (IF ParagraphCount[content] < min_paragraph_count THEN 10 ELSE 0)
     + (IF Placeholder[content] THEN 30 ELSE 0)

\* _validate_published_date: a missing date costs 5; a date of today costs
\* nothing
DatePenalty(published_at) ==
  IF published_at \in {"", "garbage"} THEN 5 ELSE 0

\* _validate_published_date compares the date with the naive
\* datetime.utcnow(): a date that carries a UTC offset raises TypeError
DateRaises(published_at) == published_at \in {"aware", "now_aware"}

\* _validate_metadata
MetadataPenalty(word_count) == IF word_count < min_word_count THEN 5 ELSE 0

\* ContentValidationConfig.enabled, true unless the environment says else
enabled == TRUE

\* "[CRITICAL] Title is missing", "[CRITICAL] Content is missing"
Critical(a) == a.title = "" \/ a.content = ""

\* `score = max(0, min(100, score))` after the penalties
Score(a) ==
  Max(0, 100 - (TitlePenalty(a.title) + ContentPenalty(a.content)
                + DatePenalty(a.published_at) + MetadataPenalty(a.word_count)))

validate_articleScoreOnly(is_enabled, a) ==
  IF ~is_enabled
  THEN [raised |-> FALSE, is_valid |-> TRUE, score |-> 100,
        critical |-> FALSE]
  ELSE [raised |-> DateRaises(a.published_at),
        is_valid |-> Score(a) >= min_quality_score,
        score |-> Score(a), critical |-> Critical(a)]
\* ContentValidator.validate_article(article_data) of a validator whose
\* `enabled` is is_enabled: the result, or the exception; critical tells
\* whether an issue starts with "[CRITICAL]"
validate_article(is_enabled, a) ==
  IF ~is_enabled
  THEN [raised |-> FALSE, is_valid |-> TRUE, score |-> 100,
        critical |-> FALSE]
  ELSE [raised |-> DateRaises(a.published_at),
        is_valid |-> Score(a) >= min_quality_score /\ ~Critical(a),
        score |-> Score(a), critical |-> Critical(a)]

\* the value extract_article returns in place of an article: None
NoDraft == [method |-> "None"]

\* the "dummy article data" extract_article returns from its except blocks
DummyArticle ==
  [method |-> "dummy", title |-> "Sample Article from url",
   content |-> "sample", published_at |-> "naive", word_count |-> 7,
   categories |-> {}, validation |-> NoValidation]

\* article_data of the rendered page, categorized by categorize_article
RenderedArticle(page) ==
  [method |-> "strategy", title |-> PageTitle[page],
   content |-> PageContent[page], published_at |-> PageDate[page],
   word_count |-> WordCount[PageContent[page]],
   categories |-> {"News"}, validation |-> NoValidation]

\* the article of the requests/BeautifulSoup fall-back: no validation, no
\* categories, published_at = datetime.now().isoformat()
FetchedArticle(page) ==
  LET content == IF PageContent[page] = ""
                 THEN "Content could not be extracted"
                 ELSE PageContent[page]
  IN [method |-> "fallback_requests", title |-> PageTitle[page],
      content |-> content, published_at |-> "naive",
      word_count |-> WordCount[content],
      categories |-> {}, validation |-> NoValidation]

Validated(v) == [present |-> TRUE, is_valid |-> v.is_valid, score |-> v.score]

\* extract_article(url, website_id) for a URL that serves `page`
extract_article(page, outcome) ==
  CASE outcome = "rendered" ->
         LET a == RenderedArticle(page)
             v == validate_article(enabled, a)
         IN IF v.raised THEN DummyArticle
            ELSE IF ~v.is_valid /\ v.score < RejectBelow THEN NoDraft
            ELSE [a EXCEPT !.validation = Validated(v)]
    [] outcome = "fetched" -> FetchedArticle(page)
    [] OTHER -> DummyArticle

\* the published dates: "" for none, "garbage" for a text that is no date,
\* "naive" and "aware" for the date of the source without and with a UTC
\* offset, "now_naive" and "now_aware" for the time of the call
\* parse_datetime: an ISO string with a UTC offset
parse_datetime(date_value) ==
  IF date_value \in {"", "garbage", "now_naive", "now_aware"}
  THEN "now_aware" ELSE "aware"

\* convert_to_db_datetime: always a datetime that carries tzinfo
convert_to_db_datetime(date_value) ==
  IF date_value = "" THEN "now_aware" ELSE parse_datetime(date_value)

\* published_at of extract_article: the date the strategy or the meta tag
\* gives, else datetime.now().isoformat()
published_at_of(published_date) ==
  IF published_date = "" THEN "now_naive" ELSE published_date

\* db_article_data of extract_and_store_article, as a row of the table
db_article_data(url, a) ==
  [url |-> url, title |-> a.title, content |-> a.content,
   published_at |-> convert_to_db_datetime(a.published_at),
   word_count |-> a.word_count, method |-> a.method,
   validation |-> a.validation, last_checked_at |-> utcnow,
   update_count |-> 0]

Abs(x) == IF x < 0 THEN 0 - x ELSE x

\* None in place of a datetime
NoTime == -1

\* dict.get(key, default)
Get(d, key, default) == IF key \in DOMAIN d THEN d[key] ELSE default

\* `not value` for the value of a field: the empty string, the empty dict,
\* the empty list, None and 0 are false
IsEmpty(key, value) ==
  CASE key = "article_metadata" -> DOMAIN value = {}
    [] key = "categories" -> value = {}
    [] key = "last_checked_at" -> value = NoTime
    [] key = "update_count" -> value = 0
    [] OTHER -> value = ""

\* has_significant_content_changes: two different texts of the model have
\* nothing in common
has_significant_content_changes(existing, new_data) ==
  LET new_content == Get(new_data, "content", "")
  IN IF existing.content = "" /\ new_content # "" THEN TRUE
     ELSE IF new_content = "" THEN FALSE
     ELSE \/ Abs(ContentLen[new_content] - ContentLen[existing.content])
               * 100 > 10 * Max(ContentLen[existing.content], 1)
          \/ new_content # existing.content

has_metadata_changesAlways(existing, new_data) ==
  DOMAIN Get(new_data, "article_metadata", <<>>) # {}
\* has_metadata_changes: a key of the new metadata that the stored metadata
\* lacks is a change, whatever the key; a changed value is a change unless
\* the key is 'validation'
has_metadata_changes(existing, new_data) ==
  LET existing_metadata == existing.article_metadata
      new_metadata == Get(new_data, "article_metadata", <<>>)
  IN \E key \in DOMAIN new_metadata :
       \/ key \notin DOMAIN existing_metadata
       \/ /\ new_metadata[key] # existing_metadata[key]
          /\ key # "validation"

\* the rules of should_update_article that follow the two about
\* force_update and last_checked_at
LaterRules(existing, new_data) ==
  IF has_significant_content_changes(existing, new_data)
  THEN [update |-> TRUE, reasons |-> <<"Significant content changes detected">>]
  ELSE IF has_metadata_changes(existing, new_data)
  THEN [update |-> TRUE, reasons |-> <<"Metadata changes detected">>]
  ELSE IF ~IsEmpty("categories", Get(new_data, "categories", {}))
  THEN [update |-> TRUE, reasons |-> <<"New categories available">>]
  ELSE IF /\ Get(new_data, "image_url", "") # ""
          /\ Get(new_data, "image_url", "") # existing.image_url
  THEN [update |-> TRUE, reasons |-> <<"Image URL changed">>]
  ELSE IF /\ Get(new_data, "author", "") # ""
          /\ Get(new_data, "author", "") # existing.author
  THEN [update |-> TRUE, reasons |-> <<"Author information changed">>]
  ELSE IF /\ Get(new_data, "published_at", "") # ""
          /\ Get(new_data, "published_at", "") # existing.published_at
  THEN [update |-> TRUE, reasons |-> <<"Published date changed">>]
  ELSE [update |-> FALSE, reasons |-> <<"No significant changes detected">>]

\* `time_since_last_check < timedelta(hours=min_update_interval_hours)`
CheckedRecently(existing) ==
  /\ existing.last_checked_at # NoTime
  /\ utcnow - existing.last_checked_at < min_update_interval

should_update_articleRecentFirst(existing, new_data, force_update) ==
  IF CheckedRecently(existing)
  THEN [update |-> FALSE, reasons |-> <<"Article was checked recently">>]
  ELSE IF force_update
  THEN [update |-> TRUE, reasons |-> <<"Force update enabled">>]
  ELSE LaterRules(existing, new_data)
\* should_update_article(existing_article, new_data, force_update): the
\* pair (should_update, reasons)
should_update_article(existing, new_data, force_update) ==
  IF force_update
  THEN [update |-> TRUE, reasons |-> <<"Force update enabled">>]
  ELSE IF CheckedRecently(existing)
  THEN [update |-> FALSE, reasons |-> <<"Article was checked recently">>]
  ELSE LaterRules(existing, new_data)

\* the fields merge_article_data copies from the stored article, and the
\* two it sets itself
MergeBase(existing) ==
  [title |-> existing.title, url |-> existing.url,
   content |-> existing.content, author |-> existing.author,
   published_at |-> existing.published_at,
   image_url |-> existing.image_url,
   article_metadata |-> existing.article_metadata,
   last_checked_at |-> utcnow,
   update_count |-> existing.update_count + 1]

\* `merged_data['article_metadata'][meta_key] = meta_value` for every key
\* of the new metadata
MergeMetadata(old, new) ==
  [k \in DOMAIN old \cup DOMAIN new |-> IF k \in DOMAIN new THEN new[k]
                                         ELSE old[k]]

merge_article_dataOverwrite(existing, new_data) ==
  LET base == MergeBase(existing)
  IN [k \in DOMAIN base \cup DOMAIN new_data |->
        IF k \in DOMAIN new_data THEN new_data[k] ELSE base[k]]
\* merge_article_data(existing_article, new_data)
merge_article_data(existing, new_data) ==
  LET base == MergeBase(existing)
      taken == {k \in DOMAIN new_data : ~IsEmpty(k, new_data[k])}
  IN [k \in DOMAIN base \cup taken |->
        IF k \notin taken THEN base[k]
        ELSE IF k = "article_metadata"
        THEN MergeMetadata(base.article_metadata, new_data.article_metadata)
        ELSE new_data[k]]

\* article_metadata of a row of the articles table
MetadataOf(row) ==
  [k \in {"word_count", "extraction_method"}
         \cup (IF row.validation.present THEN {"validation"} ELSE {}) |->
     CASE k = "word_count" -> row.word_count
       [] k = "extraction_method" -> row.method
       [] OTHER -> row.validation]

\* a row of the articles table as the Article that the comparison reads
ArticleOf(row) ==
  [title |-> row.title, url |-> row.url, content |-> row.content,
   author |-> "Unknown", published_at |-> row.published_at,
   image_url |-> "", article_metadata |-> MetadataOf(row),
   last_checked_at |-> row.last_checked_at,
   update_count |-> row.update_count]

\* the dict db_article_data of extract_and_store_article
DataOf(data) ==
  [title |-> data.title, url |-> data.url, content |-> data.content,
   author |-> "Unknown", published_at |-> data.published_at,
   image_url |-> "", article_metadata |-> MetadataOf(data),
   last_checked_at |-> data.last_checked_at]

\* merged_data as the row update_article writes
RowOf(merged) ==
  [url |-> merged.url, title |-> merged.title, content |-> merged.content,
   published_at |-> merged.published_at,
   word_count |-> merged.article_metadata["word_count"],
   method |-> merged.article_metadata["extraction_method"],
   validation |-> Get(merged.article_metadata, "validation", NoValidation),
   last_checked_at |-> merged.last_checked_at,
   update_count |-> merged.update_count]

\* ArticleRepository.get_article_by_url: the id of the row, 0 for None
get_article_by_url(url) ==
  IF \E i \in DOMAIN articles : articles[i].url = url
  THEN CHOOSE i \in DOMAIN articles :
         /\ articles[i].url = url
         /\ \A k \in DOMAIN articles : articles[k].url = url => i <= k
  ELSE 0

\* ArticleRepository.update_article: the table after the update
update_article(article_id, article_data) ==
  [articles EXCEPT ![article_id] = article_data]

create_articleUnchecked(article_data) ==
  [raised |-> FALSE, rows |-> Append(articles, article_data)]
\* ArticleRepository.create_article: the commit raises IntegrityError when
\* the url column (unique) already holds the url, and is rolled back
create_article(article_data) ==
  IF \E i \in DOMAIN articles : articles[i].url = article_data.url
  THEN [raised |-> TRUE, rows |-> articles]
  ELSE [raised |-> FALSE, rows |-> Append(articles, article_data)]

\* lines 75-211 of extract_and_store_article, entered with the value `a`
\* of extract_article: the status returned ("None" when None is returned)
\* and the tables it leaves
extract_and_store(existing, force_update, url, a) ==
  LET data0 == db_article_data(url, a)
      v == validate_article(enabled, data0)
      data == IF a.validation.present THEN data0
              ELSE [data0 EXCEPT !.validation = Validated(v)]
      created == create_article(data)
      stored ==
        CASE existing # 0 /\ force_update ->
               [raised |-> FALSE, status |-> "updated", id |-> existing,
                rows |-> update_article(existing,
                           RowOf(merge_article_data(
                              ArticleOf(articles[existing]), DataOf(data))))]
          [] existing # 0 /\ should_update_article(ArticleOf(articles[existing]),
                                        DataOf(data), FALSE).update ->
               [raised |-> FALSE, status |-> "updated", id |-> existing,
                rows |-> update_article(existing,
                           RowOf(merge_article_data(
                              ArticleOf(articles[existing]), DataOf(data))))]
          [] existing # 0 ->
               [raised |-> FALSE, status |-> "unchanged", id |-> existing,
                rows |-> articles]
          [] OTHER ->
               [raised |-> created.raised, status |-> "new",
                id |-> Len(created.rows), rows |-> created.rows]
      none == [status |-> "None", db_error |-> FALSE, rows |-> articles,
               names |-> categories, links |-> article_categories]
  IN CASE a.method = "None" -> none
       [] ~a.validation.present /\ v.raised -> none
       [] ~a.validation.present /\ ~v.is_valid /\ v.score < RejectBelow -> none
       [] stored.raised -> [none EXCEPT !.db_error = TRUE]
       [] OTHER ->
            [status |-> stored.status, db_error |-> FALSE,
             rows |-> stored.rows,
             names |-> categories \cup a.categories,
             links |-> article_categories
                         \cup {<<stored.id, c>> : c \in a.categories}]

\* what the change detector makes of a stored article and the page its URL
\* serves now
Changed(existing, url, page) ==
  LET a == extract_article(page, "rendered")
  IN /\ a.method = "strategy"
     /\ should_update_article(ArticleOf(articles[existing]),
                              DataOf(db_article_data(url, a)), FALSE).update

\* extract_and_store_article(url, website_id, force_update) up to its
\* first suspension: it returns for a stored URL, else awaits extract_article
Visit(w, url, force_update) ==
  LET existing == get_article_by_url(url)
  IN /\ IF existing # 0 /\ ~force_update
        THEN /\ articles' =
                  [articles EXCEPT ![existing].last_checked_at = utcnow]
             /\ workers' = [workers EXCEPT ![w] =
                  [FreeWorker EXCEPT !.pc = "done", !.result = "existing"]]
             /\ \E page \in Pages :
                  finished' = [NoneFinished EXCEPT
                     !.result = "existing",
                     !.changed = Changed(existing, url, page)]
        ELSE /\ workers' = [workers EXCEPT ![w] =
                  [FreeWorker EXCEPT !.pc = "extracting", !.url = url,
                     !.force = force_update, !.existing = existing]]
             /\ UNCHANGED <<articles, finished>>
     /\ UNCHANGED <<categories, article_categories>>

\* the tasks of asyncio.gather that hold the semaphore of the run
Holders == {v \in 1..MaxBatch : workers[v].pc = "extracting"}

\* a task of asyncio.gather is ready to run: the event loop runs the ready
\* tasks before it looks for completed I/O
Ready ==
  /\ run.pc = "gather"
  /\ \E v \in 1..MaxBatch : workers[v].pc = "queued"
  /\ Cardinality(Holders) < max_concurrent_requests

WorkerStartForced(w) ==
  /\ run.pc = "gather"
  /\ workers[w].pc = "queued"
  /\ \A v \in 1..MaxBatch : v < w => workers[v].pc # "queued"
  /\ Cardinality(Holders) < max_concurrent_requests
  /\ Visit(w, workers[w].url, TRUE)
  /\ UNCHANGED <<utcnow, run, jobs>>
\* a task of the run enters `async with semaphore` and calls
\* extract_and_store_article; the tasks start in the order of the list
WorkerStart(w) ==
  /\ run.pc = "gather"
  /\ workers[w].pc = "queued"
  /\ \A v \in 1..MaxBatch : v < w => workers[v].pc # "queued"
  /\ Cardinality(Holders) < max_concurrent_requests
  /\ Visit(w, workers[w].url, FALSE)
  /\ UNCHANGED <<utcnow, run, jobs>>

\* the route of the API calls extract_and_store_article for one URL
ApiCall(url, force_update) ==
  /\ ~Ready
  /\ workers[0].pc \in {"free", "done"}
  /\ force_update =>
       \A i \in DOMAIN articles :
         articles[i].url = url => articles[i].update_count < MaxUpdates
  /\ Visit(0, url, force_update)
  /\ UNCHANGED <<utcnow, run, jobs>>

\* extract_article returns to the call w, which validates and stores
ExtractReturns(w, page, outcome) ==
  LET me == workers[w]
      a == extract_article(page, outcome)
      r == extract_and_store(me.existing, me.force, me.url, a)
  IN /\ ~Ready
     /\ me.pc = "extracting"
     /\ articles' = r.rows
     /\ categories' = r.names
     /\ article_categories' = r.links
     /\ workers' = [workers EXCEPT ![w] =
          [FreeWorker EXCEPT !.pc = "done", !.result = r.status]]
     /\ finished' = [result |-> r.status, outcome |-> outcome,
                     extracted |-> a.method, db_error |-> r.db_error,
                     changed |-> FALSE]
     /\ run' = IF w # 0 /\ r.db_error
               THEN [run EXCEPT !.db_error = TRUE] ELSE run
     /\ UNCHANGED <<utcnow, jobs>>

\* create_job and start_job of the batch and discovery methods
JobStarted == [Append(jobs, NewJob) EXCEPT ![Len(jobs) + 1].status = "running"]

\* the tasks of asyncio.gather, one per URL of the list
Tasks(urls) ==
  [w \in 0..MaxBatch |->
     IF w = 0 THEN workers[0]
     ELSE IF w <= Len(urls)
          THEN [FreeWorker EXCEPT !.pc = "queued", !.url = urls[w]]
          ELSE FreeWorker]

UrlLists == UNION {[1..n -> Urls] : n \in 0..MaxBatch}

\* extract_and_store_article_batch(urls, website_id) up to asyncio.gather
BatchStart(urls) ==
  /\ run.pc \in {"idle", "done", "cancelled"}
  /\ Len(jobs) < NumJobs
  /\ jobs' = JobStarted
  /\ workers' = Tasks(urls)
  /\ run' = [NoRun EXCEPT !.pc = "gather", !.kind = "batch",
                          !.job = Len(jobs) + 1]
  /\ UNCHANGED <<utcnow, articles, categories, article_categories, finished>>

\* discover_and_store_articles(website_id) up to `await discover_urls`
DiscoverStart ==
  /\ run.pc \in {"idle", "done", "cancelled"}
  /\ Len(jobs) < NumJobs
  /\ jobs' = JobStarted
  /\ workers' = Tasks(<<>>)
  /\ run' = [NoRun EXCEPT !.pc = "discovering", !.kind = "discover",
                          !.job = Len(jobs) + 1]
  /\ UNCHANGED <<utcnow, articles, categories, article_categories, finished>>

\* scrape_website(website_id) of web-scraper/main.py up to its await:
\* create_job and start_job for a job of its own, then
\* discover_and_store_articles, which creates and starts a second job
ScrapeWebsite ==
  /\ run.pc \in {"idle", "done", "cancelled"}
  /\ Len(jobs) + 1 < NumJobs
  /\ jobs' = [Append(Append(jobs, NewJob), NewJob)
                EXCEPT ![Len(jobs) + 1].status = "running",
                       ![Len(jobs) + 2].status = "running"]
  /\ workers' = Tasks(<<>>)
  /\ run' = [NoRun EXCEPT !.pc = "discovering", !.kind = "discover",
                          !.job = Len(jobs) + 2, !.entry = Len(jobs) + 1]
  /\ UNCHANGED <<utcnow, articles, categories, article_categories, finished>>

\* discover_urls returns a list without duplicates: no URL fails the job,
\* else the first max_articles_per_run URLs go to asyncio.gather
DiscoverReturns(urls) ==
  /\ run.pc = "discovering"
  /\ \A i, k \in DOMAIN urls : urls[i] = urls[k] => i = k
  /\ IF urls = <<>>
     THEN /\ jobs' = FailedJobs(run.job)
          /\ run' = [run EXCEPT !.pc = "done", !.summary = ErrorSummary]
          /\ UNCHANGED workers
     ELSE /\ workers' =
               Tasks(IF Len(urls) > max_articles_per_run
                     THEN SubSeq(urls, 1, max_articles_per_run)
                     ELSE urls)
          /\ run' = [run EXCEPT !.pc = "gather"]
          /\ UNCHANGED jobs
  /\ UNCHANGED <<utcnow, articles, categories, article_categories, finished>>

\* discover_urls raises (the TypeError of all_urls.update(None)): the
\* `except Exception` of discover_and_store_articles fails the job
DiscoverRaises ==
  /\ run.pc = "discovering"
  /\ jobs' = FailedJobs(run.job)
  /\ run' = [run EXCEPT !.pc = "done", !.summary = ErrorSummary]
  /\ UNCHANGED <<utcnow, articles, categories, article_categories, workers,
                 finished>>

JobOutcomeStrict(articles_failed) ==
  IF articles_failed > 0 THEN "failed" ELSE "completed"
\* lines 282-291: the tasks return None for a URL that failed, they never
\* raise, so asyncio.gather returns and the job is completed however many
\* results are None
JobOutcome(articles_failed) == "completed"

\* asyncio.gather returns: count the results and complete the job
RunFinish ==
  LET tasks == {w \in 1..MaxBatch : workers[w].pc # "free"}
      articles_found == Cardinality(tasks)
      articles_stored ==
        Cardinality({w \in tasks : workers[w].result = "new"})
      articles_existing ==
        Cardinality({w \in tasks : workers[w].result = "existing"})
      articles_failed ==
        Cardinality({w \in tasks : workers[w].result = "None"})
  IN /\ run.pc = "gather"
     /\ \A w \in tasks : workers[w].pc = "done"
     /\ jobs' = IF JobOutcome(articles_failed) = "completed"
                THEN CompletedJobs(run.job, articles_found, articles_stored)
                ELSE FailedJobs(run.job)
     /\ run' = [run EXCEPT !.pc = "done",
                  !.summary = [status |-> "success",
                               found |-> articles_found,
                               stored |-> articles_stored,
                               existing |-> articles_existing,
                               failed |-> articles_failed]]
     /\ UNCHANGED <<utcnow, articles, categories, article_categories,
                    workers, finished>>

\* the task that runs the batch or discovery method is cancelled while it
\* awaits discover_urls or asyncio.gather: CancelledError is no Exception,
\* so it passes the `except Exception` blocks of the method and of its
\* tasks, which asyncio.gather cancels; the job is left as it is
Cancel ==
  /\ ~Ready
  /\ run.pc \in {"discovering", "gather"}
  /\ workers' = Tasks(<<>>)
  /\ run' = [run EXCEPT !.pc = "cancelled"]
  /\ UNCHANGED <<utcnow, articles, categories, article_categories, finished,
                 jobs>>

\* a day passes
Day ==
  /\ ~Ready
  /\ utcnow < MaxClock
  /\ utcnow' = utcnow + 1
  /\ UNCHANGED <<articles, categories, article_categories, workers,
                 finished, run, jobs>>

NextSvc ==
  \/ \E urls \in UrlLists :
       BatchStart(urls) /\ UNCHANGED <<rlVars, error_logs, handled, libVars>>
  \/ DiscoverStart /\ UNCHANGED <<rlVars, error_logs, handled, libVars>>
  \/ ScrapeWebsite /\ UNCHANGED <<rlVars, error_logs, handled, libVars>>
  \/ \E urls \in UrlLists :
       DiscoverReturns(urls) /\ UNCHANGED <<rlVars, error_logs, handled, libVars>>
  \/ DiscoverRaises /\ UNCHANGED <<rlVars, error_logs, handled, libVars>>
  \/ \E w \in 1..MaxBatch :
       WorkerStart(w) /\ UNCHANGED <<rlVars, error_logs, handled, libVars>>
  \/ \E url \in Urls, force_update \in BOOLEAN :
       ApiCall(url, force_update) /\ UNCHANGED <<rlVars, error_logs, handled, libVars>>
  \/ \E w \in 0..MaxBatch, page \in Pages, outcome \in Outcomes :
       ExtractReturns(w, page, outcome)
         /\ UNCHANGED <<rlVars, error_logs, handled, libVars>>
  \/ RunFinish /\ UNCHANGED <<rlVars, error_logs, handled, libVars>>
  \/ Cancel /\ UNCHANGED <<rlVars, error_logs, handled, libVars>>
  \/ Day /\ UNCHANGED <<rlVars, error_logs, handled, libVars>>

SpecSvc == Init /\ [][NextSvc]_vars

----------------------------------------------------------------------------
\* Properties of the article service

\* C6: a database failure while a job processes its URLs aborts the job: the
\* job of a finished run in which a call hit a database error is failed,
\* not completed
C6_DatabaseFailureFailsJob ==
  run.pc = "done" /\ run.db_error => jobs[run.job].status = "failed"

\* C7: when the render fails and the fall-back fetch fails too,
\* extract_article returns None, nothing is stored for the URL, and no
\* fabricated article is ever stored
C7_FailedExtractionYieldsNothing ==
  /\ finished.outcome = "fetch_failed" =>
       finished.extracted = "None" /\ finished.result = "None"
  /\ \A i \in DOMAIN articles : articles[i].method # "dummy"

\* C8: every stored article comes from a draft that passed validation: no
\* row carries a validation result that is invalid
C8_OnlyValidDraftsStored ==
  \A i \in DOMAIN articles : articles[i].validation.is_valid

\* C9: a visit without force update of a stored URL whose page the change
\* detector finds changed is reported with status updated
C9_RevisitUpdates ==
  finished.changed => finished.result = "updated"

\* C10: no two rows of the articles table have the same URL
C10_OneArticlePerUrl ==
  \A i, k \in DOMAIN articles : articles[i].url = articles[k].url => i = k

\* two concurrent calls extracted the same new URL: one of them stored the
\* article, the other one got the IntegrityError of the unique url column
C10_Witness ==
  /\ finished.db_error
  /\ finished.result = "None"
  /\ \E i \in DOMAIN articles :
       /\ articles[i].url = "u1"
       /\ \A k \in DOMAIN articles : articles[k].url = "u1" => k = i

\* RateLimiter._get_domain: the netloc of the URL; the URLs of the model
\* are pages of b.ng
_get_domain(url) == "b.ng"

Min(a, b) == IF a <= b THEN a ELSE b

\* the extractions of the run that are in flight against domain d:
\* extract_article is awaited directly, not through execute_with_rate_limit
InFlight(d) == {v \in Holders : _get_domain(workers[v].url) = d}

\* C11: the extractions of a batch in flight against one domain number at
\* most min(max_concurrent_requests, the size of the domain's semaphore)
C11_EffectiveConcurrency ==
  \A d \in Domains :
    Cardinality(InFlight(d)) <=
      Min(max_concurrent_requests, SemaphoreSize(_get_domain_limit(d)))

\* C12: the job of a cancelled run is failed, it does not stay running
C12_CancelledJobFails ==
  run.pc = "cancelled" => jobs[run.job].status = "failed"

\* the tasks of the run
RunTasks == {w \in 1..MaxBatch : workers[w].pc # "free"}

\* C13: a run in which URLs failed for another reason than the database
\* has processed every URL of its list and its job is completed
C13_BatchContinues ==
  /\ run.pc = "done" /\ run.summary.status = "success"
  /\ run.summary.failed > 0 /\ ~run.db_error
  =>
    /\ \A w \in RunTasks : workers[w].pc = "done"
    /\ run.summary.found = Cardinality(RunTasks)
    /\ jobs[run.job].status = "completed"

\* a batch of two URLs is done: one URL failed, the other one was stored
C13_Witness ==
  /\ run.pc = "done" /\ run.summary.status = "success"
  /\ ~run.db_error
  /\ run.summary.failed = 1
  /\ run.summary.stored = 1
  /\ jobs[run.job].status = "completed"
  /\ jobs[run.job].articles_found = 2

\* the rows of error_logs that belong to job j
ErrorsOf(j) == {i \in DOMAIN error_logs : error_logs[i].job_id = j}

\* C14: when a run is done, its job has at least one error log entry for
\* every URL that failed
C14_FailuresAreLogged ==
  run.pc = "done" /\ run.summary.status = "success" =>
    Cardinality(ErrorsOf(run.job)) >= run.summary.failed

-----------------------------------------------------------------------------
(* URL discovery: url_discovery.discover_urls.  It runs its sub-discoveries *)
(* one after the other and feeds the value of each to all_urls.update().    *)

NumLocations == 2

\* what a page can link to: an article under two spellings of its URL (with
\* and without the trailing slash) and a category page
Links == {"u1", "u1/", "/category/c"}

\* the links that start with one of category_patterns
CategoryLinks == {"/category/c"}

\* the sub-discoveries whose function has code outside its try block
\* (get_config, BrowserConfig, CrawlerRunConfig) and so can raise into the
\* retry loop; discover_urls_from_rss has its whole body inside a try
CanRaise == {"main", "sitemap", "category"}

Locations(step) ==
  CASE step = "main" -> 1
    [] step = "sitemap" -> NumLocations
    [] step = "rss" -> NumLocations
    [] step = "category" -> Cardinality(disc.main_page_urls \cap CategoryLinks)

\* where discover_urls goes after the sub-discovery at disc.pc, location
\* disc.i, has been fed to all_urls; main is the value of main_page_urls
AfterStep(main) ==
  LET category_urls == main \cap CategoryLinks
  IN CASE disc.pc = "main" -> [pc |-> "sitemap", i |-> 1]
       [] disc.pc \in {"sitemap", "rss", "category"}
            /\ disc.i < Locations(disc.pc) -> [pc |-> disc.pc, i |-> disc.i + 1]
       [] disc.pc = "sitemap" -> [pc |-> "rss", i |-> 1]
       [] disc.pc = "rss" /\ category_urls # {} -> [pc |-> "category", i |-> 1]
       [] OTHER -> [pc |-> "returned", i |-> 0]

discover_urls ==
  /\ disc.pc \in {"idle", "returned", "raised"}
  /\ disc' = [pc |-> "main", i |-> 1, attempt |-> 0, main_page_urls |-> {},
              all_urls |-> {}, result |-> "none"]
  /\ UNCHANGED call

\* the sub-discovery returns a list (empty when its crawl failed inside the
\* try block); execute_with_rate_limit hands it on and all_urls takes it
SubReturns(urls) ==
  /\ disc.pc \in {"main", "sitemap", "rss", "category"}
  /\ LET main == IF disc.pc = "main" THEN urls ELSE disc.main_page_urls
         next == AfterStep(main)
         all  == disc.all_urls \cup urls
     IN disc' = [pc |-> next.pc, i |-> next.i, attempt |-> 0,
                 main_page_urls |-> main, all_urls |-> all,
                 result |-> IF next.pc = "returned" THEN "list" ELSE "none"]
  /\ UNCHANGED call

\* the sub-discovery raises: the retry loop of execute_with_rate_limit
\* retries it, and after the last attempt returns None, which discover_urls
\* feeds to all_urls.update()
SubRaises ==
  /\ disc.pc \in CanRaise
  /\ IF OnException(disc.attempt) = "retry"
     THEN disc' = [disc EXCEPT !.attempt = @ + 1]
     ELSE \* set.update(None): 'NoneType' object is not iterable
          disc' = [disc EXCEPT !.pc = "raised", !.i = 0, !.attempt = 0,
                               !.result = "TypeError"]
  /\ UNCHANGED call

NextDisc ==
  \/ discover_urls /\ UNCHANGED <<rlVars, jobVars, svcVars>>
  \/ \E urls \in SUBSET Links : SubReturns(urls) /\ UNCHANGED <<rlVars, jobVars, svcVars>>
  \/ SubRaises /\ UNCHANGED <<rlVars, jobVars, svcVars>>

SpecDisc == Init /\ [][NextDisc]_vars

\* C15: discover_urls returns a (possibly empty) set of URLs and raises no
\* exception, whichever sub-discoveries fail, also when the rate limiter
\* returned None for one of them after its last retry.
C15_DiscoverNeverRaises == disc.pc # "raised"

\* the normal form of a URL: the trailing slash is dropped
Normalize(url) == IF url = "u1/" THEN "u1" ELSE url

\* C21: the set discover_urls returns is the union of the results of its
\* sub-discoveries and holds no two URLs with the same normal form.
C21_DeduplicatedByNormalForm ==
  disc.pc = "returned" =>
    \A a, b \in disc.all_urls : Normalize(a) = Normalize(b) => a = b

-----------------------------------------------------------------------------
(* The pure helpers, each called once with arguments drawn from small sets  *)
(* at some time of the clock: the change detector and the merge of          *)
(* article_comparison.py, the validator of content_validation.py.           *)

MetaKeys == {"word_count", "validation"}

\* the dicts over some of the keys with the given values
Dicts(values) == UNION {[K -> values] : K \in SUBSET MetaKeys}

\* the articles of the table that the helpers are called with
StoredArticles ==
  {[title |-> "Headline of the day", url |-> "u1", content |-> c,
    author |-> "Ada", published_at |-> "naive", image_url |-> "i.jpg",
    article_metadata |-> m, last_checked_at |-> t, update_count |-> 0] :
     c \in {"", "body"}, m \in Dicts({1}), t \in {NoTime, 0}}

\* a key that a dict may lack
Optional(key, values) == {<<>>} \cup {key :> v : v \in values}

\* the dicts of new article data that the helpers are called with
NewData ==
  {[title |-> t, content |-> c, author |-> a, image_url |-> "i.jpg",
    published_at |-> p] @@ m @@ g @@ l :
     t \in {"", "Headline of the day"}, c \in {"", "body", "longer body"},
     a \in {"", "Ada"}, p \in {"naive", "aware"},
     m \in Optional("article_metadata", Dicts({1, 2})),
     g \in Optional("categories", {{}, {"News"}}),
     l \in Optional("last_checked_at", {1})}

\* the article data that validate_article is called with
Drafts ==
  {[title |-> t, content |-> c, published_at |-> p, word_count |-> n] :
     t \in {"", "News", "Headline of the day"},
     c \in {"", "body", "stub", "coming soon"},
     p \in {"", "naive", "aware"}, n \in {0, 150}}

\* the path segments of the URLs is_valid_article_url is called with, all
\* lower case; none of them is a number, so no path holds a date
Segments == {"tag", "category", "author", "admin", "feed", "search",
             "news", "john-doe", "logo.png"}

MaxPath == 2

Paths == UNION {[1..n -> Segments] : n \in 0..MaxPath}

\* a URL: scheme://netloc/seg/.../seg, then "/" if slash, then ?query
CheckedUrls ==
  {[netloc |-> h, path |-> p, slash |-> t, query |-> q] :
     h \in {"example.com", "blueprint.ng"}, p \in Paths, t \in BOOLEAN,
     q \in {"", "q=news", "s=news"}}

BaseUrls == {"example.com", "blueprint.ng"}

SegLen ==
  [g \in Segments |->
     CASE g = "tag" -> 3 [] g = "category" -> 8 [] g = "author" -> 6
       [] g = "admin" -> 5 [] g = "feed" -> 4 [] g = "search" -> 6
       [] g = "news" -> 4 [] OTHER -> 8]

\* the patterns of excluded_patterns of the form "/name/"
excluded_dirs ==
  {"wp-content", "wp-includes", "wp-admin", "feed", "comments", "login",
   "register", "logout", "admin", "wp-json"}

\* a segment that holds one of ".xml", ".pdf", ".jpg", ".png", ".gif",
\* ".css", ".js"
HasExtension(g) == g = "logo.png"

article_indicators ==
  {"article", "news", "story", "post", "read", "opinion", "editorial",
   "feature", "analysis", "politics", "business", "sports",
   "entertainment", "lifestyle", "health", "technology", "science",
   "education", "crime", "metro", "national", "world"}

\* non_article_pages without the leading slash; a segment of the model
\* starts with one of them exactly if it is one of them
non_article_pages ==
  {"about", "contact", "privacy", "terms", "sitemap", "advertise",
   "category", "tag", "author", "search", "page", "wp-login", "wp-admin",
   "feed", "comments", "trackback", "wp-content", "wp-includes", "wp-json"}

\* `'-' in segment and len(segment) > 5`
SlugLike(g) == g = "john-doe" /\ SegLen[g] > 5

\* "/name/" is in the path for a name of the set: the segment is followed
\* by a slash
InPath(url, names) ==
  \E i \in 1..Len(url.path) :
    /\ url.path[i] \in names
    /\ i < Len(url.path) \/ url.slash

\* one of non_article_params is in the query
NonArticleQuery(q) == q = "s=news"

RECURSIVE SumLen(_)
SumLen(path) ==
  IF path = <<>> THEN 0 ELSE 1 + SegLen[Head(path)] + SumLen(Tail(path))

\* len(parsed_url.path) and parsed_url.path.count('/')
PathLen(url) == SumLen(url.path) + (IF url.slash THEN 1 ELSE 0)
SlashCount(url) == Len(url.path) + (IF url.slash THEN 1 ELSE 0)

\* the part of is_valid_article_url under `if "blueprint.ng" in base_url`
Lenient(url) ==
  IF url.path[1] \in non_article_pages THEN FALSE
  ELSE IF url.query # "" /\ NonArticleQuery(url.query) THEN FALSE
  ELSE IF ~url.slash /\ ~HasExtension(url.path[Len(url.path)]) THEN TRUE
  ELSE PathLen(url) > 10 /\ SlashCount(url) <= 2

\* is_valid_article_url(url, base_url)
is_valid_article_url(url, base_url) ==
  IF url.netloc # base_url THEN FALSE
  ELSE IF url.path = <<>> THEN FALSE
  ELSE IF InPath(url, excluded_dirs)
          \/ \E i \in 1..Len(url.path) : HasExtension(url.path[i])
  THEN FALSE
  ELSE IF Len(url.path) = 1 /\ SlugLike(url.path[1]) THEN TRUE
  ELSE IF InPath(url, article_indicators) THEN TRUE
  ELSE IF Len(url.path) >= 2 /\ SlugLike(url.path[Len(url.path)]) THEN TRUE
  ELSE IF base_url = "blueprint.ng" THEN Lenient(url)
  ELSE FALSE

IsValidArticleUrl ==
  /\ call.fn = "none"
  /\ \E url \in CheckedUrls, base_url \in BaseUrls :
       call' = [fn |-> "is_valid_article_url", url |-> url,
                base_url |-> base_url,
                result |-> is_valid_article_url(url, base_url)]
  /\ UNCHANGED <<disc, svcVars>>

\* the published dates a page can give
SourceDates == {"", "garbage", "naive", "aware"}

\* the published date of a page on its way through extract_article, the
\* validator and db_article_data
StoreDate ==
  /\ call.fn = "none"
  /\ \E published_date \in SourceDates :
       LET published_at == published_at_of(published_date)
       IN call' = [fn |-> "convert_to_db_datetime",
                   published_date |-> published_date,
                   published_at |-> published_at,
                   penalty |-> DatePenalty(published_at),
                   result |-> convert_to_db_datetime(published_at)]
  /\ UNCHANGED <<disc, svcVars>>

ShouldUpdate ==
  /\ call.fn = "none"
  /\ \E existing \in StoredArticles, new_data \in NewData,
        force_update \in BOOLEAN :
       call' = [fn |-> "should_update_article", existing |-> existing,
                new_data |-> new_data, force_update |-> force_update,
                now |-> utcnow,
                result |-> should_update_article(existing, new_data,
                                                 force_update)]
  /\ UNCHANGED <<disc, svcVars>>

Merge ==
  /\ call.fn = "none"
  /\ \E existing \in StoredArticles, new_data \in NewData :
       call' = [fn |-> "merge_article_data", existing |-> existing,
                new_data |-> new_data, now |-> utcnow,
                result |-> merge_article_data(existing, new_data)]
  /\ UNCHANGED <<disc, svcVars>>

Validate ==
  /\ call.fn = "none"
  /\ \E is_enabled \in BOOLEAN, article_data \in Drafts :
       call' = [fn |-> "validate_article", enabled |-> is_enabled,
                article_data |-> article_data,
                result |-> validate_article(is_enabled, article_data)]
  /\ UNCHANGED <<disc, svcVars>>

NextLib ==
  \/ ShouldUpdate /\ UNCHANGED <<rlVars, jobVars>>
  \/ Merge /\ UNCHANGED <<rlVars, jobVars>>
  \/ Validate /\ UNCHANGED <<rlVars, jobVars>>
  \/ IsValidArticleUrl /\ UNCHANGED <<rlVars, jobVars>>
  \/ StoreDate /\ UNCHANGED <<rlVars, jobVars>>
  \/ Day /\ UNCHANGED <<rlVars, error_logs, handled, libVars>>

SpecLib == Init /\ [][NextLib]_vars

\* the article was checked less than min_update_interval before the call
RecentAtCall ==
  /\ call.existing.last_checked_at # NoTime
  /\ call.now - call.existing.last_checked_at < min_update_interval

\* C16: should_update_article decides by the first rule that applies: with
\* force_update it answers true even if the article was checked recently,
\* and without force_update it answers false whenever the last check is
\* younger than the minimum interval, even if the new content differs.
C16_ForceThenInterval ==
  call.fn = "should_update_article" =>
    /\ call.force_update => call.result.update
    /\ ~call.force_update /\ RecentAtCall => ~call.result.update

C16_Witness ==
  /\ call.fn = "should_update_article"
  /\ ~call.force_update
  /\ RecentAtCall
  /\ has_significant_content_changes(call.existing, call.new_data)
  /\ ~call.result.update

\* the new data repeat the title, content, author, image, published_at and
\* metadata of the stored article
Identical ==
  /\ call.new_data.title = call.existing.title
  /\ call.new_data.content = call.existing.content
  /\ call.new_data.author = call.existing.author
  /\ call.new_data.image_url = call.existing.image_url
  /\ call.new_data.published_at = call.existing.published_at
  /\ "article_metadata" \in DOMAIN call.new_data
  /\ call.new_data.article_metadata = call.existing.article_metadata

NoChanges ==
  [update |-> FALSE, reasons |-> <<"No significant changes detected">>]

\* C17 as stated: should_update_article answers false with the single
\* reason "no significant changes" whenever the new data are identical to
\* the stored article.
C17_IdenticalDraftRefused ==
  call.fn = "should_update_article" /\ Identical => call.result = NoChanges

\* C17 as amended: should_update_article answers false with the single
\* reason "no significant changes" when the new data are identical to the
\* stored article, force_update is not set, the article was not checked
\* within the minimum interval and the new data carry no categories.
C17_IdenticalDraftRefusedByLastRule ==
  /\ call.fn = "should_update_article" /\ Identical
  /\ ~call.force_update /\ ~RecentAtCall
  /\ IsEmpty("categories", Get(call.new_data, "categories", {}))
  => call.result = NoChanges

C17_Witness ==
  /\ call.fn = "should_update_article" /\ Identical
  /\ ~call.force_update /\ ~RecentAtCall
  /\ call.existing.last_checked_at # NoTime
  /\ "categories" \notin DOMAIN call.new_data
  /\ DOMAIN call.existing.article_metadata = MetaKeys
  /\ call.result = NoChanges

\* the new metadata differ from the stored metadata in the validation key
\* only, which is new or has a new value
ValidationOnly ==
  /\ "article_metadata" \in DOMAIN call.new_data
  /\ LET old == call.existing.article_metadata
         new == call.new_data.article_metadata
     IN /\ DOMAIN new \ {"validation"} = DOMAIN old \ {"validation"}
        /\ \A k \in DOMAIN new \ {"validation"} : new[k] = old[k]
        /\ "validation" \in DOMAIN new
        /\ "validation" \in DOMAIN old => new["validation"] # old["validation"]

\* C18: a difference between the new and the stored metadata that is
\* confined to the validation key, new or changed, never makes
\* should_update_article report an update: a call that no other rule
\* decides answers false.
C18_ValidationNeverTriggers ==
  /\ call.fn = "should_update_article" /\ ValidationOnly
  /\ ~call.force_update
  /\ ~LaterRules(call.existing,
                 [call.new_data EXCEPT
                    !.article_metadata = call.existing.article_metadata]).update
  => ~call.result.update

\* the metadata of the merged record: the keys of both, the new value on
\* every key the new metadata have
DeepMerged ==
  LET old == call.existing.article_metadata
      new == Get(call.new_data, "article_metadata", <<>>)
      got == call.result.article_metadata
  IN /\ DOMAIN got = DOMAIN old \cup DOMAIN new
     /\ \A k \in DOMAIN got : got[k] = IF k \in DOMAIN new THEN new[k]
                                       ELSE old[k]

\* field k of the merged record is the new value when that is not empty and
\* the stored value otherwise
Overlaid(k) ==
  IF k \in DOMAIN call.new_data /\ ~IsEmpty(k, call.new_data[k])
  THEN call.result[k] = call.new_data[k]
  ELSE call.result[k] = call.existing[k]

\* the new value of field k when that is not empty, else other
Taken(k, other) ==
  IF k \in DOMAIN call.new_data /\ ~IsEmpty(k, call.new_data[k])
  THEN call.new_data[k] ELSE other

\* C19 as stated: in the record merge_article_data returns, every field
\* that is not empty in the new data has the new value, every field that is
\* empty or absent in the new data keeps the stored value, and the metadata
\* are merged key by key, the new value winning.
C19_MergeOverlay ==
  call.fn = "merge_article_data" =>
    /\ DeepMerged
    /\ \A k \in DOMAIN call.result \ {"article_metadata"} : Overlaid(k)

\* C19 as amended: the same for every field but last_checked_at and
\* update_count; when the new data have no value for these, last_checked_at
\* is the time of the call and update_count is the stored count plus one.
C19_MergeOverlayButBookkeeping ==
  call.fn = "merge_article_data" =>
    /\ DeepMerged
    /\ \A k \in DOMAIN call.result
                  \ {"article_metadata", "last_checked_at", "update_count"} :
         Overlaid(k)
    /\ call.result.last_checked_at = Taken("last_checked_at", call.now)
    /\ call.result.update_count =
         Taken("update_count", call.existing.update_count + 1)

C19_Witness ==
  /\ call.fn = "merge_article_data"
  /\ call.new_data.title = "" /\ call.result.title = call.existing.title
  /\ call.new_data.content = "longer body" /\ call.result.content = "longer body"
  /\ "article_metadata" \in DOMAIN call.new_data
  /\ DOMAIN call.existing.article_metadata = MetaKeys
  /\ DOMAIN call.new_data.article_metadata = {"word_count"}
  /\ call.result.article_metadata["word_count"] = 2
  /\ call.result.article_metadata["validation"] = 1

\* is_valid is `score >= min_quality_score and no issue is critical`
ValidIffScoreAndNoCritical ==
  call.result.is_valid <=>
    call.result.score >= min_quality_score /\ ~call.result.critical

MissingText == call.article_data.title = "" \/ call.article_data.content = ""

\* C20 as stated: validate_article reports the article valid if and only if
\* its score is at least min_quality_score and no critical issue was
\* raised; an article without title or without content is invalid whatever
\* its score.
C20_ValidIffScoreAndCritical ==
  call.fn = "validate_article" /\ ~call.result.raised =>
    /\ ValidIffScoreAndNoCritical
    /\ MissingText => ~call.result.is_valid

\* C20 as amended: the same for a validator that is enabled; a disabled
\* validator reports every article valid with score 100, also one without
\* title or content.
C20_ValidIffScoreAndCriticalWhenEnabled ==
  call.fn = "validate_article" /\ ~call.result.raised =>
    /\ ValidIffScoreAndNoCritical
    /\ call.enabled /\ MissingText => ~call.result.is_valid
    /\ ~call.enabled => call.result.is_valid /\ call.result.score = 100

C20_Witness ==
  /\ call.fn = "validate_article" /\ ~call.result.raised
  /\ call.enabled
  /\ call.article_data.title = ""
  /\ call.result.score >= min_quality_score
  /\ ~call.result.is_valid

\* the paths the exclusion list names: a tag, category, author, admin, feed
\* or search segment, or a static asset
ExclusionList == {"tag", "category", "author", "admin", "feed", "search"}

\* C22: is_valid_article_url returns false for every URL whose path matches
\* the exclusion list (tag, category, author, admin, feed, search and
\* static-asset paths), whatever else the path holds.
C22_ExcludedPathsAreInvalid ==
  /\ call.fn = "is_valid_article_url"
  /\ \E i \in 1..Len(call.url.path) :
       call.url.path[i] \in ExclusionList \/ HasExtension(call.url.path[i])
  => ~call.result

\* C23: the published date of a draft whose source gives no date, or a text
\* that is no date, is a missing date after extraction and in the stored
\* row; the current time never stands in for it.
C23_MissingDateStaysMissing ==
  /\ call.fn = "convert_to_db_datetime"
  /\ call.published_date \in {"", "garbage"}
  => /\ call.published_at \notin {"now_naive", "now_aware"}
     /\ call.result \notin {"now_naive", "now_aware"}

\* C24: the summary every run returns, also a run that failed or failed in
\* part, holds the found, stored, existing and failed counts.
C24_SummaryHasAllCounts ==
  run.pc = "done" =>
    {"found", "stored", "existing", "failed"} \subseteq DOMAIN run.summary

----------------------------------------------------------------------------
\* Properties of the rate limiter under a limit of two requests a minute

\* C25: with requests_per_minute = 2 for a domain, the operation of the
\* third of three calls made in rapid succession does not start before a
\* full minute has passed since the first call's request
C25_ThirdWaitsForWindow ==
  LET h == History("b.ng")
  IN \A i \in 1..Len(h) :
       i + _get_domain_limit("b.ng") <= Len(h) =>
         h[i + _get_domain_limit("b.ng")] >= h[i] + Window

\* two calls went through at once, the third slept in the gate and its
\* operation started exactly one minute after the first request
C25_Witness ==
  LET h == History("b.ng")
  IN /\ Len(h) = 3
     /\ h[2] = h[1]
     /\ h[3] = h[1] + Window
     /\ \E c \in Callers : pc[c] = "run" /\ dom[c] = "b.ng"

\* caller c invokes the wrapped operation in this step: the first attempt
\* after the gate, or a retry after the back-off sleep
Invokes(c) == pc[c] # "run" /\ pc'[c] = "run"

\* C29: every invocation of the wrapped operation, retries included, puts
\* its timestamp into the one-minute window of the operation's domain
C29_EveryInvocationRecorded ==
  [][\A c \in Callers :
       Invokes(c) =>
         /\ dom'[c] \in DOMAIN request_history'
         /\ \E h \in {History(dom'[c]), Recent(History(dom'[c]))} :
              request_history'[dom'[c]] = Append(h, now)]_vars

\* the calls whose operations wait, directly or through other calls, for
\* the call of caller c to return
RECURSIVE Enclosing(_)
Enclosing(c) ==
  LET outer == {b \in Callers : awaiting[b] = c}
  IN outer \cup UNION {Enclosing(b) : b \in outer}

\* the call of caller c waits for a permit that only calls waiting for c
\* itself could release: it never returns
NeverReturns(c) ==
  /\ pc[c] = "acquire"
  /\ _get_domain_semaphore(dom[c]) = 0
  /\ Inside(dom[c]) \subseteq Enclosing(c)

\* C26: every call of Execute returns when its operation returns, also a
\* call made by a rate-limited operation for its own domain: no call is
\* left waiting for a permit held by the calls that wait for it
C26_NestedCallsReturn == \A c \in Callers : ~NeverReturns(c)

----------------------------------------------------------------------------
\* Properties of the crawl entry points

\* the jobs the entry point of the run created and started: the job of
\* the service method and, under scrape_website, the job of scrape_website
EntryJobs == {run.job, run.entry} \ {0}

\* C27: when a crawl entry point has returned, every job it created and
\* started is completed or failed; none is left running
C27_NoJobLeftRunning ==
  run.pc = "done" =>
    \A j \in EntryJobs : jobs[j].status \in {"completed", "failed"}

----------------------------------------------------------------------------
\* Properties of a batch that holds one URL twice

\* the call that ended last returned None because its extraction failed or
\* its draft was rejected, not because the database refused the row
RejectedDraft == finished.result = "None" /\ ~finished.db_error

\* worker w looked for its URL before another worker of the batch stored
\* it as a new article, and w's own call ends in this step with a draft
\* that extraction and validation let through
LostTheRace(w) ==
  /\ run.pc = "gather"
  /\ workers[w].pc = "extracting"
  /\ workers[w].existing = 0
  /\ get_article_by_url(workers[w].url) # 0
  /\ \E v \in 1..MaxBatch :
       v # w /\ workers[v].pc = "done" /\ workers[v].result = "new"
  /\ workers'[w].pc = "done"
  /\ ~RejectedDraft'

\* C28: of two workers of a batch that handle the same URL, not stored
\* before, at the same time, one creates the article and the other
\* reports the URL as existing, not as a failure
C28_LoserReportsExisting ==
  [][\A w \in 1..MaxBatch :
       LostTheRace(w) =>
         /\ workers'[w].result = "existing"
         /\ Len(articles') = Len(articles)]_vars

----------------------------------------------------------------------------
\* Properties of the counts of a success summary

\* C30: in every success summary articles_found is the sum of
\* articles_stored, articles_existing and articles_failed
C30_CountsAddUp ==
  (run.pc = "done" /\ run.summary.status = "success") =>
    run.summary.found =
      run.summary.stored + run.summary.existing + run.summary.failed

\* a run of two URLs has ended with one article stored and one URL failed
C30_Witness ==
  /\ run.pc = "done"
  /\ run.summary.status = "success"
  /\ run.summary.found = 2
  /\ run.summary.stored = 1
  /\ run.summary.failed = 1

====
